---- MODULE Spec2Model ----
(***************************************************************************)
(* vecbox: the provider dispatcher (embed), the auto-selector (autoEmbed), *)
(* the provider registry and the embedding providers, as a state machine.  *)
(*                                                                         *)
(* JavaScript runs one task at a time: every action below is the code that *)
(* runs between two awaits.  The main task is the top-level call (embed or *)
(* autoEmbed); the only background task is the native-module               *)
(* initialisation that the LlamaCppProvider constructor starts and does    *)
(* not await.                                                              *)
(*                                                                         *)
(* Texts are sequences of characters.  A JavaScript value that the code    *)
(* only tests for truthiness is modelled with its falsy values kept apart  *)
(* where the program can tell them apart ("undefined" and "" for an API    *)
(* key) and merged where it cannot (an absent text and the empty text).    *)
(* A vector is the record of the text it embeds, its length and its        *)
(* JavaScript type; the numbers in it are not modelled.                    *)
(***************************************************************************)
EXTENDS Integers, Sequences, FiniteSets, TLC

\* ------------------------------------------------------------------ bounds
MaxBatch == 2

\* ------------------------------------------------------------- small sets
Undefined == "undefined"

Truthy(s) == s /= Undefined /\ s /= ""

Whitespace == {" "}

InputTexts == { <<>>, <<" ", " ">>, <<"a", " ">> }

FilePaths == { "doc.txt", "missing.txt" }

FileContent == [ p \in {"doc.txt"} |-> <<"c">> ]

EmbedInputs ==
    { [text |-> t, filePath |-> ""] : t \in InputTexts }
        \cup { [text |-> <<>>, filePath |-> p] : p \in FilePaths }

\* The items of a batch, one for each way an item can go: a blank text, a
\* readable file (a text that is not blank) and an unreadable file.  The
\* plain text and the empty input are left to the single calls: in a batch
\* they take the paths of the readable and of the unreadable file.
BatchInputs ==
    { i \in EmbedInputs : i.text = <<" ", " ">> \/ i.filePath /= "" }

Batches == UNION { [1..n -> BatchInputs] : n \in 0..MaxBatch }

EnvNames == { "OPENAI_API_KEY", "GOOGLE_GENERATIVE_AI_API_KEY", "MISTRAL_API_KEY" }

\* What process.env may hold under each name: nothing, the empty string
\* or a key.  The three names are read by the same expression, so the two
\* falsy values are both tried on one name only.
EnvValues(n) ==
    CASE n = "OPENAI_API_KEY" -> { Undefined, "sk-key" }
      [] n = "GOOGLE_GENERATIVE_AI_API_KEY" -> { "", "sk-key" }
      [] n = "MISTRAL_API_KEY" -> { Undefined, "", "sk-key" }

Environments == { e \in [EnvNames -> {Undefined, "", "sk-key"}] :
                    \A n \in EnvNames : e[n] \in EnvValues(n) }

ProviderTypes == { "openai", "gemini", "claude", "mistral", "deepseek", "llamacpp" }

RemoteTypes == ProviderTypes \ {"llamacpp"}

\* ---------------------------------------------------------- pure functions
RECURSIVE TrimStart(_)
TrimStart(t) ==
    IF t = <<>> THEN <<>>
    ELSE IF Head(t) \in Whitespace THEN TrimStart(Tail(t)) ELSE t

RECURSIVE TrimEnd(_)
TrimEnd(t) ==
    IF t = <<>> THEN <<>>
    ELSE IF t[Len(t)] \in Whitespace THEN TrimEnd(SubSeq(t, 1, Len(t) - 1)) ELSE t

Trim(t) == TrimEnd(TrimStart(t))

\* EmbeddingProvider.readInput: the text if truthy, else the file's content
\* if the path is truthy, else an error; an unreadable file rejects.
readInput(input) ==
    IF input.text /= <<>> THEN [ok |-> TRUE, text |-> input.text, error |-> ""]
    ELSE IF input.filePath /= "" THEN
        IF input.filePath \in DOMAIN FileContent
        THEN [ok |-> TRUE, text |-> FileContent[input.filePath], error |-> ""]
        ELSE [ok |-> FALSE, text |-> <<>>, error |-> "ENOENT: no such file or directory"]
    ELSE [ok |-> FALSE, text |-> <<>>, error |-> "Either text or filePath must be provided"]

\* ------------------------------------------------------------ model names
ModelNames ==
    { "default", "text-embedding-3-small", "text-embedding-3-large",
      "gemini-embedding-001", "mistral-embed",
      "nomic-embed-text-v1.5.Q4_K_M.gguf", "all-MiniLM-L6-v2.gguf" }

\* String.prototype.includes on the model names above.
Includes(model, needle) ==
    <<model, needle>> \in
        { <<"text-embedding-3-small", "text-embedding-3-small">>,
          <<"text-embedding-3-large", "text-embedding-3-large">>,
          <<"gemini-embedding-001", "gemini-embedding-001">>,
          <<"gemini-embedding-001", "embedding-001">>,
          <<"mistral-embed", "mistral-embed">>,
          <<"nomic-embed-text-v1.5.Q4_K_M.gguf", "nomic-embed-text-v1.5">>,
          <<"nomic-embed-text-v1.5.Q4_K_M.gguf", "nomic-embed-text-v1">>,
          <<"all-MiniLM-L6-v2.gguf", "all-MiniLM-L6-v2">> }

\* getModel() of each provider class.
getModel(type, config) ==
    CASE type = "gemini" ->
            IF Truthy(config.model) THEN config.model ELSE "gemini-embedding-001"
      [] type = "mistral" ->
            IF Truthy(config.model) THEN config.model ELSE "mistral-embed"
      [] type = "llamacpp" ->
            IF Truthy(config.model) THEN config.model
            ELSE "nomic-embed-text-v1.5.Q4_K_M.gguf"
      [] OTHER ->
            IF Truthy(config.model) THEN config.model ELSE "default"

\* getDimensions() of each provider class.
getDimensions(type, config) ==
    LET model == getModel(type, config) IN
    CASE type = "openai" ->
            IF Includes(model, "text-embedding-3-large") THEN 3072 ELSE 1536
      [] type = "gemini" -> 768
      [] type = "claude" -> 0
      [] type = "mistral" -> 1024
      [] type = "deepseek" -> 4096
      [] type = "llamacpp" ->
            IF Includes(model, "nomic-embed-text-v1.5") THEN 768
            ELSE IF Includes(model, "nomic-embed-text-v1") THEN 768
            ELSE IF Includes(model, "all-MiniLM-L6-v2") THEN 384
            ELSE 768

\* The message of the error each remote constructor throws without apiKey.
KeyRequiredMessage(type) ==
    CASE type = "openai" -> "OpenAI API key is required"
      [] type = "gemini" -> "Google API key is required"
      [] type = "claude" -> "Anthropic API key is required"
      [] type = "mistral" -> "Mistral API key is required"
      [] type = "deepseek" -> "DeepSeek API key is required"

\* ------------------------------------------------------------- the registry
\* EmbeddingFactory.providers: the identifier -> class map.
providers == [ t \in ProviderTypes |-> t ]

\* Mutant of AutoProviders: the list is ordered by what the environment
\* holds, a candidate with a key going before the local one.
AutoProvidersKeyedFirst(env) ==
    LET key(n) == IF Truthy(env[n]) THEN env[n] ELSE Undefined
        local == [provider |-> "llamacpp", model |-> "nomic-embed-text-v1.5.Q4_K_M.gguf",
                  apiKey |-> Undefined]
        openai == [provider |-> "openai", model |-> "text-embedding-3-small",
                   apiKey |-> key("OPENAI_API_KEY")]
        rest == << [provider |-> "gemini", model |-> "gemini-embedding-001",
                    apiKey |-> key("GOOGLE_GENERATIVE_AI_API_KEY")],
                   [provider |-> "mistral", model |-> "mistral-embed",
                    apiKey |-> key("MISTRAL_API_KEY")] >>
    IN  IF Truthy(openai.apiKey) THEN << openai, local >> \o rest
        ELSE << local, openai >> \o rest

\* The candidate list of autoEmbed, built from process.env at call time.
AutoProviders(env) ==
    LET key(n) == IF Truthy(env[n]) THEN env[n] ELSE Undefined IN
    << [provider |-> "llamacpp", model |-> "nomic-embed-text-v1.5.Q4_K_M.gguf",
        apiKey |-> Undefined],
       [provider |-> "openai", model |-> "text-embedding-3-small",
        apiKey |-> key("OPENAI_API_KEY")],
       [provider |-> "gemini", model |-> "gemini-embedding-001",
        apiKey |-> key("GOOGLE_GENERATIVE_AI_API_KEY")],
       [provider |-> "mistral", model |-> "mistral-embed",
        apiKey |-> key("MISTRAL_API_KEY")] >>

NumCandidates == 4

\* Mutant of Attemptable: every candidate is tried, key or no key.
AttemptableAlways(c) == TRUE

\* autoEmbed's test of a candidate: attempted, or passed over.
Attemptable(c) == c.provider = "llamacpp" \/ Truthy(c.apiKey)

\* autoEmbed's cleanConfig: provider and model, apiKey only when truthy.
CleanConfig(c) ==
    [provider |-> c.provider, model |-> c.model,
     apiKey |-> IF Truthy(c.apiKey) THEN c.apiKey ELSE Undefined,
     httpEndpoint |-> Undefined]

\* The configurations a caller passes to embed directly.
Configs ==
    { c \in [provider : ProviderTypes \cup {"transformers"},
             model : {Undefined, "text-embedding-3-large", "all-MiniLM-L6-v2.gguf"},
             apiKey : {Undefined, "sk-key"},
             httpEndpoint : {Undefined, "http://localhost:8080"}] :
        /\ c.model = "text-embedding-3-large" => c.provider = "openai"
        /\ c.model = "all-MiniLM-L6-v2.gguf" => c.provider = "llamacpp"
        /\ c.httpEndpoint /= Undefined => c.provider = "llamacpp"
        /\ c.apiKey /= Undefined => c.provider /= "llamacpp" }

\* ------------------------------------------------------------------ vectors
Vec(text, len, type) == [text |-> text, len |-> len, type |-> type]

NoVec == Vec(<<>>, 0, Undefined)

EmptyArray == Vec(<<>>, 0, "Array")

NoResult ==
    [kind |-> "none", embeddings |-> <<>>, dimensions |-> 0,
     model |-> "", provider |-> "", usage |-> Undefined]

\* An EmbedResult carries its vector as the one element of embeddings.
EmbedResult(v, dims, model, provider, usage) ==
    [kind |-> "single", embeddings |-> <<v>>, dimensions |-> dims,
     model |-> model, provider |-> provider, usage |-> usage]

BatchEmbedResult(vs, dims, model, provider, usage) ==
    [kind |-> "batch", embeddings |-> vs, dimensions |-> dims,
     model |-> model, provider |-> provider, usage |-> usage]

Ok(r) == [ok |-> TRUE, result |-> r, error |-> ""]

Throw(msg) == [ok |-> FALSE, result |-> NoResult, error |-> msg]

\* ----------------------------------------------------- external backends
\* What a remote embeddings endpoint may answer to one request.  A
\* deviation other than "error" and "nodata" affects the item at index k.
RemoteBehaviours == { "error", "ok", "nodata", "noembedding", "wrongdim" }

\* response.data of an OpenAI-shaped endpoint (openai, mistral, deepseek)
\* and the results of Gemini's embedContent calls, one entry per text.
ResponseData(b, k, texts, dims) ==
    IF b = "nodata" THEN <<>>
    ELSE [ i \in 1..Len(texts) |->
            IF i = k /\ b = "noembedding" THEN NoVec
            ELSE IF i = k /\ b = "wrongdim" THEN Vec(texts[i], dims + 1, "Array")
            ELSE Vec(texts[i], dims, "Array") ]

\* JavaScript's (x?.length || 0) and (x || []) on a vector.
LengthOrZero(v) == IF v.type = Undefined THEN 0 ELSE v.len

OrEmptyArray(v) == IF v.type = Undefined THEN EmptyArray ELSE v

FirstLengthOrZero(vs) == IF vs = <<>> THEN 0 ELSE LengthOrZero(vs[1])

\* OpenAIProvider.embed, MistralProvider.embed, DeepSeekProvider.embed and
\* GeminiProvider.embed after the backend has answered.
RemoteEmbedResult(type, config, text, b) ==
    LET model == getModel(type, config)
        data == ResponseData(b, 1, <<text>>, getDimensions(type, config))
        usage == IF type = "gemini" THEN Undefined ELSE "usage"
    IN  IF b = "error" THEN Throw("backend request failed")
        ELSE IF type = "gemini" THEN
            IF data = <<>> \/ data[1].type = Undefined
            THEN Throw("Cannot read properties of undefined")
            ELSE Ok(EmbedResult(data[1], data[1].len, model, "gemini", usage))
        ELSE IF data = <<>> THEN Throw("No embedding returned from API")
        ELSE Ok(EmbedResult(OrEmptyArray(data[1]), LengthOrZero(data[1]),
                            model, type, usage))

\* embedBatch of the same providers after the backend has answered.
RemoteBatchResult(type, config, texts, b, k) ==
    LET model == getModel(type, config)
        data == ResponseData(b, k, texts, getDimensions(type, config))
        usage == IF type = "gemini" THEN Undefined ELSE "usage"
    IN  IF type = "gemini" /\ texts = <<>>
            THEN Ok(BatchEmbedResult(<<>>, 0, model, type, usage))
        ELSE IF b = "error" THEN Throw("backend request failed")
        ELSE IF type = "gemini" /\ b = "nodata"
            THEN Throw("Cannot read properties of undefined")
        ELSE IF type = "mistral" /\ \E i \in 1..Len(data) : data[i].type = Undefined
            THEN Throw("No embedding returned from Mistral API")
        ELSE Ok(BatchEmbedResult(data, FirstLengthOrZero(data), model, type, usage))

\* What the native binding's getEmbedding may do.
NativeBehaviours == { "throw", "float32", "array", "empty" }

\* n_embd of the native model.
NativeEmbd == 768

\* What the llama.cpp HTTP server may answer.
HttpBehaviours == { "error", "ok", "invalid", "wrongdim" }

\* What getEmbedding may do with the handle it is passed: a value that is
\* not a model handle makes it throw before it does anything else.
NativeAnswers(handle) == IF handle = "null" THEN { "throw" } ELSE NativeBehaviours

\* LlamaCppProvider.embedWithNative.
embedWithNative(config, text, nb) ==
    LET dims == getDimensions("llamacpp", config)
        len == IF nb = "empty" THEN 0 ELSE NativeEmbd
    IN  IF nb = "throw" THEN Throw("native getEmbedding failed")
        ELSE IF len = 0 THEN Throw("Native module returned empty embedding")
        ELSE IF len /= dims THEN Throw("Embedding dimension mismatch")
        ELSE Ok(EmbedResult(Vec(text, len, "Array"), len,
                            getModel("llamacpp", config), "llamacpp", Undefined))

\* One iteration of the loop of LlamaCppProvider.embedBatchWithNative on a
\* resolved text: the vector pushed, nothing pushed, or an error.
NativeBatchItem(config, text, nb) ==
    LET dims == getDimensions("llamacpp", config)
        len == IF nb = "empty" THEN 0 ELSE NativeEmbd
    IN  IF Trim(text) = <<>> THEN [ok |-> TRUE, push |-> <<>>, error |-> ""]
        ELSE IF nb = "throw"
            THEN [ok |-> FALSE, push |-> <<>>, error |-> "native getEmbedding failed"]
        ELSE IF nb = "float32" \/ len = 0
            THEN [ok |-> FALSE, push |-> <<>>,
                  error |-> "Native module returned invalid embedding"]
        ELSE IF len /= dims
            THEN [ok |-> FALSE, push |-> <<>>, error |-> "Embedding dimension mismatch"]
        ELSE [ok |-> TRUE, push |-> << Vec(text, len, "Array") >>, error |-> ""]

\* The end of embedBatchWithNative, after the loop.
NativeBatchResult(config, embeddings) ==
    IF embeddings = <<>> THEN Throw("No valid texts to embed")
    ELSE Ok(BatchEmbedResult(embeddings, FirstLengthOrZero(embeddings),
                             getModel("llamacpp", config), "llamacpp", Undefined))

\* HttpClient.post: the URL is baseUrl + endpoint with baseUrl = '' (the
\* provider builds the client without one); fetch rejects a URL that is
\* not absolute.
HttpPostFails(url, hb) == url.base = "" \/ hb = "error"

\* LlamaCppProvider.embedWithHttp / embedBatchWithHttp after the post.
HttpResult(config, url, texts, hb, batch) ==
    LET dims == getDimensions("llamacpp", config)
        model == getModel("llamacpp", config)
        vs == [ i \in 1..Len(texts) |->
                Vec(texts[i], IF hb = "wrongdim" THEN dims + 1 ELSE dims, "Array") ]
    IN  IF HttpPostFails(url, hb) THEN Throw("HTTP request failed")
        ELSE IF hb = "invalid" THEN Throw("Invalid response from HTTP endpoint")
        ELSE IF vs = <<>> THEN Throw("No embeddings returned from HTTP endpoint")
        ELSE IF \E i \in 1..Len(vs) : vs[i].len /= dims
            THEN Throw("Embedding dimension mismatch")
        ELSE IF batch
            THEN Ok(BatchEmbedResult(vs, FirstLengthOrZero(vs), model, "llamacpp", Undefined))
            ELSE Ok(EmbedResult(vs[1], vs[1].len, model, "llamacpp", Undefined))

\* -------------------------------------------------------------------- state
VARIABLES
    pc,            \* where the main task is suspended
    top,           \* the top-level call in progress: function, input, env
    idx,           \* autoEmbed: index of the candidate being attempted
    config,        \* embed: the configuration of the provider in use
    llama,         \* the LlamaCppProvider instance of this call
    nativeModule,  \* llamacpp.ts module variable, shared by all instances
    nativeEnv,     \* what importing the native wrapper yields on this machine
    batch,         \* provider call in flight: path, position, texts, vectors
    outcome,       \* how the top-level call settled
    returned,      \* what the provider's embed / embedBatch resolved with
    calls,         \* history of what the call did to each provider
    log            \* entries written by the loggers (INFO and above)

vars == << pc, top, idx, config, llama, nativeModule, nativeEnv, batch, outcome, returned,
          calls, log >>

NoTop == [fn |-> "none", input |-> <<>>, isArray |-> FALSE,
          env |-> [n \in EnvNames |-> Undefined]]

NoConfig == [provider |-> "none", model |-> Undefined, apiKey |-> Undefined,
             httpEndpoint |-> Undefined]

\* What the environment holds for the native wrapper: it cannot be
\* imported; it imports but found no binding (default export null); its
\* createModel throws; it works.
NativeEnvs == { "missing", "null", "badmodel", "ok" }

NoLlama == [exists |-> FALSE, useNative |-> FALSE, nativeModel |-> "null",
            useHttpFallback |-> FALSE, httpEndpoint |-> Undefined,
            initPc |-> 0, released |-> 0]

NoBatch == [path |-> "none", i |-> 0, texts |-> <<>>, embeddings |-> <<>>]

NoOutcome == [status |-> "none", result |-> NoResult, error |-> ""]

\* How many calls of isReady() and cleanup() an application makes on a
\* provider it holds.
MaxCalls == 3

\* Number of entries of PATHS.NATIVE_MODULE_PATHS.
NumNativePaths == 3

\* An entry of the history: what was done (op) to which provider; for the
\* answer of an external backend, detail says what it answered.
Event(op, p) == [op |-> op, provider |-> p, detail |-> ""]

Answer(p, b) == [op |-> "answer", provider |-> p, detail |-> b]

\* A call of nativeModule.getEmbedding; detail is the model handle passed.
NativeCall(p, handle) == [op |-> "native", provider |-> p, detail |-> handle]

LogEntry(level, module, msg, arg) ==
    [level |-> level, module |-> module, msg |-> msg, arg |-> arg, reason |-> ""]

\* An entry that reports a failure: arg is the provider identifier the
\* message interpolates ("" when it interpolates none), reason the error
\* message it interpolates.
LogFailure(level, module, msg, arg, reason) ==
    [level |-> level, module |-> module, msg |-> msg, arg |-> arg, reason |-> reason]

Init ==
    /\ pc = "idle"
    /\ top = NoTop
    /\ idx = 0
    /\ config = NoConfig
    /\ llama = NoLlama
    /\ nativeModule = "null"
    /\ nativeEnv \in NativeEnvs
    /\ batch = NoBatch
    /\ outcome = NoOutcome
    /\ returned = NoResult
    /\ calls = <<>>
    /\ log = <<>>

\* ------------------------------------------------- synchronous code paths
\* Mutant of create: a provider is constructed before the identifier is
\* looked up in the registry.
createConstructsFirst(cfg) ==
    IF cfg.provider \notin DOMAIN providers
    THEN [ok |-> FALSE, error |-> "Unsupported provider: " \o cfg.provider,
          constructed |-> TRUE]
    ELSE IF providers[cfg.provider] \in RemoteTypes /\ ~Truthy(cfg.apiKey)
    THEN [ok |-> FALSE, error |-> KeyRequiredMessage(providers[cfg.provider]),
          constructed |-> FALSE]
    ELSE [ok |-> TRUE, error |-> "", constructed |-> TRUE]

\* Mutant of create: the remote constructors do not test apiKey; a missing
\* key shows only when the vendor is reached.
createWithoutKeyTest(cfg) ==
    IF cfg.provider \notin DOMAIN providers
    THEN [ok |-> FALSE, error |-> "Unsupported provider: " \o cfg.provider,
          constructed |-> FALSE]
    ELSE [ok |-> TRUE, error |-> "", constructed |-> TRUE]

\* EmbeddingFactory.create: the registry lookup, then the constructor.
create(cfg) ==
    IF cfg.provider \notin DOMAIN providers
    THEN [ok |-> FALSE, error |-> "Unsupported provider: " \o cfg.provider,
          constructed |-> FALSE]
    ELSE IF providers[cfg.provider] \in RemoteTypes /\ ~Truthy(cfg.apiKey)
    THEN [ok |-> FALSE, error |-> KeyRequiredMessage(providers[cfg.provider]),
          constructed |-> FALSE]
    ELSE [ok |-> TRUE, error |-> "", constructed |-> TRUE]

\* embed(cfg, input) up to its first await: the factory call and the call
\* of isReady(), or the catch block when the factory throws.
EmbedSync(cfg, h, l) ==
    LET l1 == l \o << LogEntry("info", "main", "Starting embedding with provider", cfg.provider),
                      LogEntry("info", "factory", "Creating provider", cfg.provider) >>
        h1 == h \o << Event("create", cfg.provider) >>
        c == create(cfg)
    IN  IF c.ok
        THEN [ok |-> TRUE, error |-> "",
              calls |-> h1 \o << Event("construct", cfg.provider),
                                 Event("isReady", cfg.provider) >>,
              log |-> l1]
        ELSE [ok |-> FALSE, error |-> c.error,
              calls |-> h1 \o IF c.constructed
                              THEN << Event("construct", cfg.provider) >> ELSE <<>>,
              log |-> l1 \o << LogFailure("error", "main", "Embedding failed", "", c.error) >>]

\* The loop of autoEmbed from candidate i on, up to the next await: the
\* candidates passed over, the attempt entered, or the final throw.
RECURSIVE AutoFrom(_, _, _, _)
AutoFrom(i, cands, h, l) ==
    IF i > NumCandidates
    THEN [done |-> TRUE, idx |-> i, config |-> NoConfig, calls |-> h, log |-> l]
    ELSE IF ~Attemptable(cands[i])
    THEN AutoFrom(i + 1, cands, h \o << Event("skip", cands[i].provider) >>, l)
    ELSE LET cfg == CleanConfig(cands[i])
             e == EmbedSync(cfg, h,
                    l \o << LogEntry("info", "main", "Trying provider", cfg.provider) >>)
         IN  IF e.ok
             THEN [done |-> FALSE, idx |-> i, config |-> cfg,
                   calls |-> e.calls, log |-> e.log]
             ELSE AutoFrom(i + 1, cands,
                           e.calls \o << Event("fail", cfg.provider) >>,
                           e.log \o << LogFailure("warn", "main", "Provider failed",
                                                  cfg.provider, e.error) >>)

\* The LlamaCppProvider constructor: the fields, and initializeNativeModule
\* started and suspended at its first import.
NewLlama(cfg) ==
    [exists |-> TRUE, useNative |-> nativeModule /= "null", nativeModel |-> "null",
     useHttpFallback |-> FALSE, httpEndpoint |-> cfg.httpEndpoint,
     initPc |-> 1, released |-> 0]

AggregateError == "No available embedding provider found"

\* ------------------------------------------------------- settling a call
Rejected(msg) == [status |-> "rejected", result |-> NoResult, error |-> msg]

Resolved(r) == [status |-> "resolved", result |-> r, error |-> ""]

\* The provider's own catch block: it logs and rethrows.
ProviderLog(l, msg) ==
    l \o << LogFailure("error", config.provider, "embedding failed", "", msg) >>

\* The catch block of embed logs the error; a provider that is called
\* directly (createProvider) has no dispatcher around it.
DispatcherLog(l, msg) ==
    IF top.fn = "provider" THEN l
    ELSE l \o << LogFailure("error", "main", "Embedding failed", "", msg) >>

\* Mutant of Fail: when the candidates are exhausted autoEmbed rejects with
\* the error of the last candidate it tried.
FailWithLastError(msg, h, l) ==
    LET h1 == h \o << Event("fail", config.provider) >>
        l1 == DispatcherLog(l, msg)
        r == AutoFrom(idx + 1, AutoProviders(top.env), h1,
                      l1 \o << LogFailure("warn", "main", "Provider failed",
                                          config.provider, msg) >>)
    IN  /\ batch' = NoBatch
        /\ UNCHANGED returned
        /\ IF top.fn /= "autoEmbed"
           THEN /\ pc' = "done"
                /\ outcome' = Rejected(msg)
                /\ calls' = h1
                /\ log' = l1
                /\ UNCHANGED << idx, config >>
           ELSE /\ pc' = IF r.done THEN "done" ELSE "ready_wait"
                /\ outcome' = IF r.done THEN Rejected(msg) ELSE outcome
                /\ idx' = r.idx
                /\ config' = IF r.done THEN config ELSE r.config
                /\ calls' = r.calls
                /\ log' = r.log

\* Mutant of Fail: autoEmbed has no catch block, the error of the candidate
\* reaches the caller.
FailPropagates(msg, h, l) ==
    /\ batch' = NoBatch
    /\ UNCHANGED returned
    /\ pc' = "done"
    /\ outcome' = Rejected(msg)
    /\ calls' = h \o << Event("fail", config.provider) >>
    /\ log' = DispatcherLog(l, msg)
    /\ UNCHANGED << idx, config >>

\* Mutant of Fail: embed falls back to another provider when its own fails.
FailFallsBack(msg, h, l) ==
    LET h1 == h \o << Event("fail", config.provider) >>
        l1 == DispatcherLog(l, msg)
        other == IF config.provider = "llamacpp" THEN "openai" ELSE "llamacpp"
        r == AutoFrom(idx + 1, AutoProviders(top.env), h1,
                      l1 \o << LogFailure("warn", "main", "Provider failed",
                                          config.provider, msg) >>)
    IN  /\ batch' = NoBatch
        /\ UNCHANGED returned
        /\ IF top.fn /= "autoEmbed"
           THEN /\ pc' = "done"
                /\ outcome' = Rejected(msg)
                /\ calls' = h1 \o << Event("create", other), Event("fail", other) >>
                /\ log' = l1
                /\ UNCHANGED << idx, config >>
           ELSE /\ pc' = IF r.done THEN "done" ELSE "ready_wait"
                /\ outcome' = IF r.done THEN Rejected(AggregateError) ELSE outcome
                /\ idx' = r.idx
                /\ config' = IF r.done THEN config ELSE r.config
                /\ calls' = r.calls
                /\ log' = r.log

\* Mutant of Fail: the loop of autoEmbed takes the failed candidate up
\* again instead of going on to the next.
FailRetries(msg, h, l) ==
    LET h1 == h \o << Event("fail", config.provider) >>
        l1 == DispatcherLog(l, msg)
        r == AutoFrom(idx, AutoProviders(top.env), h1,
                      l1 \o << LogFailure("warn", "main", "Provider failed",
                                          config.provider, msg) >>)
    IN  /\ batch' = NoBatch
        /\ UNCHANGED returned
        /\ IF top.fn /= "autoEmbed"
           THEN /\ pc' = "done"
                /\ outcome' = Rejected(msg)
                /\ calls' = h1
                /\ log' = l1
                /\ UNCHANGED << idx, config >>
           ELSE /\ pc' = IF r.done THEN "done" ELSE "ready_wait"
                /\ outcome' = IF r.done THEN Rejected(AggregateError) ELSE outcome
                /\ idx' = r.idx
                /\ config' = IF r.done THEN config ELSE r.config
                /\ calls' = r.calls
                /\ log' = r.log

\* An error thrown inside embed() after its first await: the catch block of
\* embed logs and rethrows; under autoEmbed the catch block of the loop
\* logs and the loop goes on to the next candidate.
Fail(msg, h, l) ==
    LET h1 == h \o << Event("fail", config.provider) >>
        l1 == DispatcherLog(l, msg)
        r == AutoFrom(idx + 1, AutoProviders(top.env), h1,
                      l1 \o << LogFailure("warn", "main", "Provider failed",
                                          config.provider, msg) >>)
    IN  /\ batch' = NoBatch
        /\ UNCHANGED returned
        /\ IF top.fn /= "autoEmbed"
           THEN /\ pc' = "done"
                /\ outcome' = Rejected(msg)
                /\ calls' = h1
                /\ log' = l1
                /\ UNCHANGED << idx, config >>
           ELSE /\ pc' = IF r.done THEN "done" ELSE "ready_wait"
                /\ outcome' = IF r.done THEN Rejected(AggregateError) ELSE outcome
                /\ idx' = r.idx
                /\ config' = IF r.done THEN config ELSE r.config
                /\ calls' = r.calls
                /\ log' = r.log

\* Mutant of Succeed: autoEmbed keeps the result but goes on through the
\* remaining candidates before it returns.
SucceedThenContinue(r, h) ==
    LET h1 == h \o << Event("success", config.provider) >>
        rest == AutoFrom(idx + 1, AutoProviders(top.env), h1, log)
    IN  /\ pc' = "done"
        /\ outcome' = Resolved(r)
        /\ calls' = IF top.fn = "autoEmbed" THEN rest.calls ELSE h1
        /\ returned' = r
        /\ batch' = NoBatch
        /\ UNCHANGED << idx, config, log >>

\* Mutant of Succeed: autoEmbed wraps the result of the winning candidate,
\* renaming the provider and dropping the usage.
SucceedRewrapped(r, h) ==
    /\ pc' = "done"
    /\ outcome' = Resolved(IF top.fn = "autoEmbed"
                           THEN [r EXCEPT !.provider = "auto", !.usage = Undefined]
                           ELSE r)
    /\ returned' = r
    /\ calls' = h \o << Event("success", config.provider) >>
    /\ batch' = NoBatch
    /\ UNCHANGED << idx, config, log >>

\* The provider returned r: embed returns it (return await provider.embed),
\* and so does autoEmbed (return await embed).
Succeed(r, h) ==
    /\ pc' = "done"
    /\ outcome' = Resolved(r)
    /\ returned' = r
    /\ calls' = h \o << Event("success", config.provider) >>
    /\ batch' = NoBatch
    /\ UNCHANGED << idx, config, log >>

Settle(r, h) == IF r.ok THEN Succeed(r.result, h) ELSE Fail(r.error, h, ProviderLog(log, r.error))

\* ------------------------------------------------------------------ actions
\* A caller calls embed(cfg, input); input is one EmbedInput or an array.
CallEmbed ==
    /\ pc = "idle"
    /\ \E cfg \in Configs, isArray \in BOOLEAN :
       \E input \in IF isArray THEN Batches ELSE [1..1 -> EmbedInputs] :
         LET e == EmbedSync(cfg, <<>>, <<>>) IN
         /\ top' = [fn |-> "embed", input |-> input, isArray |-> isArray,
                    env |-> NoTop.env]
         /\ config' = cfg
         /\ idx' = 0
         /\ calls' = IF e.ok THEN e.calls ELSE e.calls \o << Event("fail", cfg.provider) >>
         /\ log' = e.log
         /\ pc' = IF e.ok THEN "ready_wait" ELSE "done"
         /\ outcome' = IF e.ok THEN NoOutcome ELSE Rejected(e.error)
         /\ llama' = IF e.ok /\ cfg.provider = "llamacpp"
                     THEN NewLlama(cfg) ELSE NoLlama
         /\ batch' = NoBatch
         /\ returned' = NoResult
         /\ UNCHANGED << nativeModule, nativeEnv >>

\* A caller calls autoEmbed(input); process.env is read when the candidate
\* list is built.
CallAutoEmbed ==
    /\ pc = "idle"
    /\ \E env \in Environments, isArray \in BOOLEAN :
       \E input \in IF isArray THEN Batches ELSE [1..1 -> EmbedInputs] :
         LET r == AutoFrom(1, AutoProviders(env), <<>>,
                    << LogEntry("info", "main", "Auto-detecting best provider...", "") >>)
         IN
         /\ top' = [fn |-> "autoEmbed", input |-> input, isArray |-> isArray,
                    env |-> env]
         /\ idx' = r.idx
         /\ config' = r.config
         /\ calls' = r.calls
         /\ log' = r.log
         /\ pc' = IF r.done THEN "done" ELSE "ready_wait"
         /\ outcome' = IF r.done THEN Rejected(AggregateError) ELSE NoOutcome
         /\ llama' = IF ~r.done /\ r.config.provider = "llamacpp"
                     THEN NewLlama(r.config) ELSE NoLlama
         /\ batch' = NoBatch
         /\ returned' = NoResult
         /\ UNCHANGED << nativeModule, nativeEnv >>

\* Mutant of Blocked: the value of isReady() is ignored.
BlockedNever(ready) == FALSE

\* embed's test of the value isReady() resolved to.
Blocked(ready) == ~ready

NotReadyError(p) == "Provider " \o p \o " is not ready"

NoneAvailable == "Llama.cpp provider requires either native module or HTTP endpoint. None available."

\* Mutant of NativeUsable: the provider goes by the useNative flag alone.
NativeUsableByFlag == llama.useNative

\* The test of embed and embedBatch before the native path.
NativeUsable == llama.useNative /\ llama.nativeModel /= "null"

HttpUsable == llama.useHttpFallback /\ Truthy(llama.httpEndpoint)

\* Mutant of Route: an array of one input is unwrapped and takes the route
\* of a single input.
RouteUnwrapsSingleton(input, isArray) ==
    IF isArray /\ Len(input) /= 1 THEN "embedBatch" ELSE "embed"

\* embed's branch on Array.isArray(input): the provider method it calls.
Route(input, isArray) == IF isArray THEN "embedBatch" ELSE "embed"

\* A provider method is suspended at its first await, the read of an input.
Start(path, h) ==
    /\ pc' = "read_wait"
    /\ batch' = [path |-> path, i |-> 1, texts |-> <<>>, embeddings |-> <<>>]
    /\ calls' = h
    /\ UNCHANGED << idx, config, outcome, returned, log >>

\* LlamaCppProvider.embed or embedBatch is called and runs up to its first
\* await: embed reads its input; embedBatch picks native or HTTP on the
\* spot and enters that loop (an empty array leaves the loop at once).
LlamaCall(op, input, h) ==
    IF op = "embed" THEN Start("single", h)
    ELSE IF NativeUsable THEN
        IF input = <<>> THEN Settle(NativeBatchResult(config, <<>>), h)
        ELSE Start("native", h)
    ELSE IF HttpUsable THEN
        IF input = <<>> THEN Settle(Throw("No valid texts to embed"), h)
        ELSE Start("http", h)
    ELSE Settle(Throw(NoneAvailable), h)

\* What the operation inside an isReady() probe may do: succeed, throw or
\* reject, or answer with no data (a response whose data is empty).
ProbeBehaviours == { "ok", "error", "empty" }

\* Mutant of isReady: the probe has no catch block, its error propagates.
isReadyUncaught(type, pb) ==
    IF pb = "error" THEN [threw |-> TRUE, value |-> FALSE]
    ELSE IF type = "mistral" THEN [threw |-> FALSE, value |-> pb /= "empty"]
    ELSE [threw |-> FALSE, value |-> TRUE]

\* isReady() of each provider class: the probe inside try, true after it
\* (Mistral: response.data.length > 0), and false from the catch block.
isReady(type, pb) ==
    IF pb = "error" THEN [threw |-> FALSE, value |-> FALSE]
    ELSE IF type = "mistral" THEN [threw |-> FALSE, value |-> pb /= "empty"]
    ELSE [threw |-> FALSE, value |-> TRUE]

ProbeError == "readiness check failed"

\* isReady() settles.  A remote probe is a request to the vendor.  The
\* LlamaCppProvider was probed in the same turn that constructed it, when
\* nativeModel was still null and useHttpFallback still false, so what
\* settles here is its check of the llama.cpp binary and the model file.
\* A remote probe that fails is logged at error level by its provider;
\* the LlamaCppProvider logs it at debug level, which is not written.
\* When ready, embed routes to provider.embed or provider.embedBatch, which
\* runs up to its first await.
ReadyResolve ==
    /\ pc = "ready_wait"
    /\ UNCHANGED << top, llama, nativeModule, nativeEnv >>
    /\ \E pb \in ProbeBehaviours :
        LET type == providers[config.provider]
            probe == isReady(type, pb)
            ready == probe.value
            rl == IF pb = "error" /\ type /= "llamacpp"
                  THEN log \o << LogFailure("error", config.provider,
                                            "readiness check failed", "", ProbeError) >>
                  ELSE log
            op == Route(top.input, top.isArray)
            h == calls \o << Answer(config.provider, IF ready THEN "ready" ELSE "notReady"),
                            Event(op, config.provider) >>
        IN  IF probe.threw
                THEN Fail(ProbeError, calls \o << Answer(config.provider, "threw") >>, log)
            ELSE IF Blocked(ready)
                THEN Fail(NotReadyError(config.provider),
                          calls \o << Answer(config.provider, "notReady") >>, rl)
            ELSE IF type = "claude"
                THEN Settle(Throw("Claude embeddings API not yet available. Please use another provider."), h)
            ELSE IF type /= "llamacpp" THEN Start("remote", h)
            ELSE LlamaCall(op, top.input, h)

\* The first error among the reads of a Promise.all over the inputs.
RECURSIVE FirstReadError(_, _)
FirstReadError(inputs, i) ==
    IF i > Len(inputs) THEN ""
    ELSE IF ~readInput(inputs[i]).ok THEN readInput(inputs[i]).error
    ELSE FirstReadError(inputs, i + 1)

BackendEvents(n) == [ j \in 1..n |-> Event("backend", config.provider) ]

\* readInput settles.  The remote providers read every input before their
\* one request (Gemini: one request per text); LlamaCppProvider.embed reads
\* its input, rejects blank text and picks native or HTTP; the two batch
\* loops of LlamaCppProvider read one input per turn.
ReadResolve ==
    /\ pc = "read_wait"
    /\ UNCHANGED << top, llama, nativeModule, nativeEnv >>
    /\ LET type == providers[config.provider]
           n == Len(top.input)
           r == readInput(top.input[batch.i])
           last == batch.i = n
           wait(path, texts, h) ==
                /\ pc' = "backend_wait"
                /\ batch' = [batch EXCEPT !.path = path, !.texts = texts]
                /\ calls' = h
                /\ UNCHANGED << idx, config, outcome, returned, log >>
       IN
       CASE batch.path = "remote" ->
              IF FirstReadError(top.input, 1) /= ""
              THEN Settle(Throw(FirstReadError(top.input, 1)), calls)
              ELSE wait("remote", [ j \in 1..n |-> readInput(top.input[j]).text ],
                        calls \o BackendEvents(IF type = "gemini" THEN n ELSE 1))
         [] batch.path = "single" ->
              IF ~r.ok THEN Settle(Throw(r.error), calls)
              ELSE IF Trim(r.text) = <<>> THEN Settle(Throw("Text input cannot be empty"), calls)
              ELSE IF NativeUsable
                  THEN \E nb \in NativeAnswers(llama.nativeModel) :
                         Settle(embedWithNative(config, r.text, nb),
                                calls \o << NativeCall(config.provider, llama.nativeModel),
                                            Answer(config.provider, nb) >>)
              ELSE IF HttpUsable
                  THEN wait("http1", << r.text >>, calls \o BackendEvents(1))
              ELSE Settle(Throw(NoneAvailable), calls)
         [] batch.path = "native" ->
              IF ~r.ok THEN Settle(Throw(r.error), calls)
              ELSE \E nb \in NativeAnswers(llama.nativeModel) :
                     LET it == NativeBatchItem(config, r.text, nb)
                         h == IF Trim(r.text) = <<>> THEN calls
                              ELSE calls \o << NativeCall(config.provider, llama.nativeModel),
                                               Answer(config.provider, nb) >>
                         es == batch.embeddings \o it.push
                     IN  IF ~it.ok THEN Settle(Throw(it.error), h)
                         ELSE IF last THEN Settle(NativeBatchResult(config, es), h)
                         ELSE /\ batch' = [batch EXCEPT !.i = @ + 1, !.embeddings = es]
                              /\ calls' = h
                              /\ UNCHANGED << pc, idx, config, outcome, returned, log >>
         [] batch.path = "http" ->
              LET ts == IF r.ok /\ Trim(r.text) /= <<>>
                        THEN batch.texts \o << r.text >> ELSE batch.texts
              IN  IF ~r.ok THEN Settle(Throw(r.error), calls)
                  ELSE IF ~last
                      THEN /\ batch' = [batch EXCEPT !.i = @ + 1, !.texts = ts]
                           /\ UNCHANGED << pc, idx, config, outcome, returned, calls, log >>
                  ELSE IF ts = <<>> THEN Settle(Throw("No valid texts to embed"), calls)
                  ELSE wait("http", ts, calls \o BackendEvents(1))

\* The backend answers the request (or all of Gemini's requests have).
BackendResolve ==
    /\ pc = "backend_wait"
    /\ UNCHANGED << top, llama, nativeModule, nativeEnv >>
    /\ LET type == providers[config.provider] IN
       CASE batch.path = "remote" ->
              \E b \in RemoteBehaviours, k \in 1..MaxBatch :
                 /\ k <= Len(batch.texts) \/ k = 1
                 /\ Settle(IF top.isArray
                           THEN RemoteBatchResult(type, config, batch.texts, b, k)
                           ELSE RemoteEmbedResult(type, config, batch.texts[1], b),
                           calls \o << Answer(config.provider, b) >>)
         [] batch.path = "http1" ->
              \E hb \in HttpBehaviours :
                 Settle(HttpResult(config, [base |-> llama.httpEndpoint, path |-> "/embeddings"],
                                   batch.texts, hb, FALSE),
                        calls \o << Answer(config.provider, hb) >>)
         [] batch.path = "http" ->
              \E hb \in HttpBehaviours :
                 Settle(HttpResult(config, [base |-> "", path |-> "/embeddings"],
                                   batch.texts, hb, TRUE),
                        calls \o << Answer(config.provider, hb) >>)

\* initializeNativeModule resumes after the import of one path: the
\* import failed and the loop goes on (after the last path, the HTTP
\* fallback is enabled if an endpoint is configured), or the wrapper
\* loaded and createModel is called.
InitStep ==
    /\ llama.exists
    /\ llama.initPc \in 1..NumNativePaths
    /\ UNCHANGED << pc, top, idx, config, nativeEnv, batch, outcome, returned, calls, log >>
    /\ CASE nativeEnv = "missing" ->
              /\ UNCHANGED nativeModule
              /\ llama' = IF llama.initPc < NumNativePaths
                          THEN [llama EXCEPT !.initPc = @ + 1]
                          ELSE [llama EXCEPT !.initPc = NumNativePaths + 1,
                                  !.useHttpFallback =
                                      IF nativeModule = "null" /\ ~Truthy(llama.httpEndpoint)
                                      THEN @ ELSE IF Truthy(llama.httpEndpoint) THEN TRUE ELSE @]
         [] nativeEnv = "null" ->
              /\ nativeModule' = "namespace"
              /\ llama' = [llama EXCEPT !.initPc = NumNativePaths + 1,
                             !.useNative = FALSE, !.nativeModel = "null"]
         [] nativeEnv = "badmodel" ->
              /\ nativeModule' = "binding"
              /\ llama' = [llama EXCEPT !.initPc = NumNativePaths + 1,
                             !.useNative = FALSE, !.nativeModel = "null"]
         [] nativeEnv = "ok" ->
              /\ nativeModule' = "binding"
              /\ llama' = [llama EXCEPT !.initPc = NumNativePaths + 1,
                             !.useNative = TRUE, !.nativeModel = "model"]

\* ------------------------------------------- a provider used directly
\* The configurations an application passes to createProvider for a
\* LlamaCppProvider it keeps.
LlamaConfigs == { c \in Configs : c.provider = "llamacpp" /\ c.model = Undefined }

\* What an application gives a provider it holds: any one item, or an
\* array of files that can be read (what a batch does with the other
\* items is the same as under the dispatcher).
HeldBatches == { b \in Batches : \A j \in 1..Len(b) : b[j].filePath = "doc.txt" }

CountOf(op) == Cardinality({ q \in 1..Len(calls) : calls[q].op = op })

\* A call of isReady() on a LlamaCppProvider; detail is the branch that
\* returned: the native model, the HTTP health check, the check of the
\* binary and the model file, or the catch block ("none").
IsReadyCall(p, basis) == [op |-> "isReady", provider |-> p, detail |-> basis]

\* close() of the model handle the native wrapper hands out: it releases
\* the model.
close(l) == [l EXCEPT !.released = @ + 1]

\* Mutant of cleanup: the model is closed and the field keeps the handle.
cleanupKeepsHandle(l) ==
    IF l.useNative /\ l.nativeModel /= "null" THEN close(l) ELSE l

\* LlamaCppProvider.cleanup: close the model and forget it.
cleanup(l) ==
    IF l.useNative /\ l.nativeModel /= "null"
    THEN [close(l) EXCEPT !.nativeModel = "null"]
    ELSE l

\* createProvider(cfg) returns EmbeddingFactory.create(cfg); the
\* application keeps the LlamaCppProvider it got.
CallCreateProvider ==
    /\ pc = "idle"
    /\ \E cfg \in LlamaConfigs :
         /\ create(cfg).ok
         /\ top' = [fn |-> "provider", input |-> <<>>, isArray |-> FALSE,
                    env |-> NoTop.env]
         /\ config' = cfg
         /\ llama' = NewLlama(cfg)
         /\ calls' = << Event("create", cfg.provider), Event("construct", cfg.provider) >>
         /\ log' = << LogEntry("info", "factory", "Creating provider", cfg.provider) >>
    /\ pc' = "held"
    /\ idx' = 0
    /\ batch' = NoBatch
    /\ outcome' = NoOutcome
    /\ returned' = NoResult
    /\ UNCHANGED << nativeModule, nativeEnv >>

\* The application awaits provider.isReady(): true with a native model;
\* else true when the HTTP fallback is on and the endpoint is healthy;
\* else the check of the binary and the model file decides.
ProviderIsReady ==
    /\ pc = "held"
    /\ CountOf("isReady") + CountOf("cleanup") < MaxCalls
    /\ \E healthy \in BOOLEAN, pb \in ProbeBehaviours :
         LET basis == IF llama.nativeModel /= "null" THEN "native"
                      ELSE IF HttpUsable /\ healthy THEN "http"
                      ELSE IF isReady("llamacpp", pb).value THEN "binary"
                      ELSE "none"
         IN  calls' = calls \o << IsReadyCall(config.provider, basis),
                                   Answer(config.provider,
                                          IF basis = "none" THEN "notReady" ELSE "ready") >>
    /\ UNCHANGED << pc, top, idx, config, llama, nativeModule, nativeEnv, batch,
                    outcome, returned, log >>

\* The application calls provider.embed(input) or provider.embedBatch(inputs).
ProviderEmbed ==
    /\ pc = "held"
    /\ \E isArray \in BOOLEAN :
       \E input \in IF isArray THEN HeldBatches ELSE [1..1 -> BatchInputs] :
         LET op == IF isArray THEN "embedBatch" ELSE "embed" IN
         /\ top' = [top EXCEPT !.input = input, !.isArray = isArray]
         /\ LlamaCall(op, input, calls \o << Event(op, config.provider) >>)
    /\ UNCHANGED << llama, nativeModule, nativeEnv >>

\* The application calls provider.cleanup(), between its other calls or
\* while a call of embed or embedBatch is suspended at an await.
ProviderCleanup ==
    /\ top.fn = "provider"
    /\ pc \in { "held", "read_wait", "backend_wait" }
    /\ CountOf("isReady") + CountOf("cleanup") < MaxCalls
    /\ llama' = cleanup(llama)
    /\ calls' = calls \o << Event("cleanup", config.provider) >>
    /\ log' = IF llama' /= llama
              THEN log \o << LogEntry("info", config.provider,
                                      "Native Llama.cpp model closed", "") >>
              ELSE log
    /\ UNCHANGED << pc, top, idx, config, nativeModule, nativeEnv, batch,
                    outcome, returned >>

\* The caller has the outcome and the provider of the call is dropped; the
\* module variable nativeModule stays.
Finish ==
    /\ pc \in { "done", "held" }
    /\ llama.initPc \notin 1..NumNativePaths
    /\ pc' = "idle"
    /\ top' = NoTop
    /\ idx' = 0
    /\ config' = NoConfig
    /\ llama' = NoLlama
    /\ batch' = NoBatch
    /\ outcome' = NoOutcome
    /\ returned' = NoResult
    /\ calls' = <<>>
    /\ log' = <<>>
    /\ UNCHANGED << nativeModule, nativeEnv >>

Next ==
    \/ CallEmbed
    \/ CallAutoEmbed
    \/ ReadyResolve
    \/ ReadResolve
    \/ BackendResolve
    \/ InitStep
    \/ CallCreateProvider
    \/ ProviderIsReady
    \/ ProviderEmbed
    \/ ProviderCleanup
    \/ Finish

Spec == Init /\ [][Next]_vars

\* =================================================================== claims
\* The priority order the documentation states (README, "Priority order").
Priority == << "llamacpp", "openai", "gemini", "mistral" >>

Rank(p) == CHOOSE n \in 1..NumCandidates : Priority[n] = p

EnvNameOf(p) ==
    CASE p = "openai" -> "OPENAI_API_KEY"
      [] p = "gemini" -> "GOOGLE_GENERATIVE_AI_API_KEY"
      [] p = "mistral" -> "MISTRAL_API_KEY"

InAuto == top.fn = "autoEmbed"

InEmbed == top.fn = "embed"

Positions == 1..Len(calls)

\* The candidates in the order autoEmbed took them up (passed over or tried).
Considered == SelectSeq(calls, LAMBDA e : e.op \in {"skip", "create"})

\* Candidate p was passed over, or tried and failed, before position q.
DisposedBefore(p, q) ==
    \E j \in 1..(q - 1) : calls[j].provider = p /\ calls[j].op \in {"skip", "fail"}

HasEvent(op, p) == \E q \in Positions : calls[q].op = op /\ calls[q].provider = p

HasOp(op) == \E q \in Positions : calls[q].op = op

C2_CredentialGating ==
    InAuto =>
        /\ \A q \in Positions :
              calls[q].provider \in {"openai", "gemini", "mistral"}
                  /\ calls[q].op /= "skip"
              => Truthy(top.env[EnvNameOf(calls[q].provider)])
        /\ calls /= <<>>
        /\ calls[1] = Event("create", "llamacpp")

\* One key is absent, one is empty, and the candidate with a key is tried.
C2_Witness ==
    /\ InAuto
    /\ top.env["OPENAI_API_KEY"] = Undefined
    /\ top.env["GOOGLE_GENERATIVE_AI_API_KEY"] = ""
    /\ top.env["MISTRAL_API_KEY"] = "sk-key"
    /\ HasEvent("skip", "openai") /\ HasEvent("skip", "gemini")
    /\ HasEvent("backend", "mistral")

\* C3: autoEmbed returns the result of the first candidate in priority
\* order whose dispatcher call succeeds; nothing happens to any candidate
\* after that success.
C3_FirstSuccessWins ==
    InAuto /\ outcome.status = "resolved" =>
        /\ idx \in 1..NumCandidates
        /\ calls[Len(calls)] = Event("success", Priority[idx])
        /\ outcome.result.provider = Priority[idx]
        /\ outcome.result.model = AutoProviders(top.env)[idx].model
        /\ \A q \in 1..(Len(calls) - 1) :
              /\ calls[q].op /= "success"
              /\ Rank(calls[q].provider) <= idx
        /\ \A m \in 1..(idx - 1) : DisposedBefore(Priority[m], Len(calls))

\* The second candidate succeeded after the first failed, while a later
\* candidate had its key.
C3_Witness ==
    /\ InAuto /\ outcome.status = "resolved" /\ idx = 2
    /\ HasEvent("fail", "llamacpp")
    /\ Truthy(top.env["GOOGLE_GENERATIVE_AI_API_KEY"])

\* C4: when every candidate was passed over or failed, autoEmbed rejects
\* with the one aggregate error and returns no result.
C4_TotalFailureAggregates ==
    InAuto /\ pc = "done" =>
        \/ outcome.status = "resolved" /\ HasOp("success")
        \/ /\ ~HasOp("success")
           /\ outcome = Rejected(AggregateError)
           /\ outcome.result = NoResult
           /\ \A n \in 1..NumCandidates :
                 DisposedBefore(Priority[n], Len(calls) + 1)

\* Every candidate was passed over or failed, at least one of each.
C4_Witness ==
    /\ InAuto /\ pc = "done" /\ outcome.status = "rejected"
    /\ HasOp("skip") /\ HasEvent("fail", "mistral")

\* C5: a failure of a candidate that autoEmbed tried never reaches the
\* caller as that error; right after it the next candidate is taken up, or,
\* after the last candidate, the call ends with the aggregate error.
C5_FailureCaughtAndContinued ==
    InAuto =>
        /\ outcome.status = "rejected" => outcome.error = AggregateError
        /\ \A q \in Positions :
              calls[q].op = "fail" =>
                 LET n == Rank(calls[q].provider) IN
                 IF n < NumCandidates
                 THEN /\ q < Len(calls)
                      /\ calls[q + 1].provider = Priority[n + 1]
                      /\ calls[q + 1].op \in {"skip", "create"}
                 ELSE q = Len(calls) /\ pc = "done" /\ outcome.status = "rejected"

\* The local provider reported ready, its native call then threw, and the
\* next candidate was tried.
C5_Witness ==
    /\ InAuto
    /\ \E q \in 1..(Len(calls) - 1) :
          /\ calls[q] = Answer("llamacpp", "throw")
          /\ calls[q + 1] = Event("fail", "llamacpp")
    /\ HasEvent("create", "openai")

\* C6: a provider's embed or embedBatch is called only right after the
\* same provider's isReady() resolved to true; when isReady() resolves to
\* false the attempt fails at once, and embed(config, input) rejects with
\* the not-ready error that names config.provider.
C6_ReadyBeforeEmbed ==
    /\ top.fn /= "provider" => \A q \in Positions :
          /\ calls[q].op \in {"embed", "embedBatch"} =>
                /\ q > 2
                /\ calls[q - 1] = Answer(calls[q].provider, "ready")
                /\ calls[q - 2] = Event("isReady", calls[q].provider)
          /\ calls[q].op \in {"backend", "native"} =>
                \E j \in 1..(q - 1) :
                    /\ calls[j].op \in {"embed", "embedBatch"}
                    /\ calls[j].provider = calls[q].provider
          /\ calls[q].op = "answer" /\ calls[q].detail = "notReady" =>
                /\ q < Len(calls)
                /\ calls[q + 1] = Event("fail", calls[q].provider)
                /\ InEmbed => /\ pc = "done"
                              /\ outcome = Rejected(NotReadyError(config.provider))

\* embed(config, input) was rejected because isReady() resolved to false.
C6_Witness ==
    /\ InEmbed /\ pc = "done" /\ Len(calls) >= 2
    /\ calls[Len(calls) - 1] = Answer(config.provider, "notReady")
    /\ outcome.status = "rejected"

\* C7: embed(config, input) makes one factory call, for config.provider,
\* which constructs at most the provider registered under that name, and
\* whatever fails, nothing is done to any other provider.
C7_DispatcherNeverFallsBack ==
    InEmbed =>
        /\ idx = 0
        /\ \A q \in Positions : calls[q].provider = config.provider
        /\ calls[1] = Event("create", config.provider)
        /\ Cardinality({ q \in Positions : calls[q].op = "create" }) = 1
        /\ Cardinality({ q \in Positions : calls[q].op = "construct" }) <= 1
        /\ HasOp("construct") => config.provider \in DOMAIN providers
        /\ llama.exists => config.provider = "llamacpp"
        /\ outcome.status = "rejected" =>
              calls[Len(calls)] = Event("fail", config.provider)

\* embed was rejected after its provider was ready and its backend failed.
C7_Witness ==
    /\ InEmbed /\ outcome.status = "rejected"
    /\ HasOp("construct")
    /\ \E q \in Positions : calls[q].op = "answer" /\ calls[q].detail = "error"

\* Every external backend answered as it should (no error, no missing or
\* misshapen vector).
FaithfulBackend ==
    \A q \in Positions :
        calls[q].op = "answer" =>
            calls[q].detail \in {"ready", "notReady", "ok", "array", "float32"}

\* The text input i of the call resolves to.
Resolved_(i) == readInput(top.input[i])

ItemFails(i) == ~Resolved_(i).ok \/ Trim(Resolved_(i).text) = <<>>

\* C9: when an item of a batch fails (blank text, unreadable file, failed
\* backend call), embedBatch fails as a whole.
C9_BatchAllOrNothing ==
    outcome.status = "resolved" /\ top.isArray =>
        /\ \A i \in 1..Len(top.input) : ~ItemFails(i)
        /\ \A q \in Positions :
              calls[q].op = "answer" => calls[q].detail \notin {"error", "throw"}

\* C10: embed with one input that resolves to empty or whitespace-only
\* text fails and returns no embedding, for every provider.
C10_BlankInputRejected ==
    outcome.status = "resolved" /\ ~top.isArray => ~ItemFails(1)

\* The vector of a successful single result, and the provider's declared
\* getDimensions() for the configuration in use.
ResultVector == outcome.result.embeddings[1]

Declared == getDimensions(providers[config.provider], config)

SingleResolved == outcome.status = "resolved" /\ ~top.isArray

BatchResolved == outcome.status = "resolved" /\ top.isArray

\* C11: a successful EmbedResult has dimensions equal to the length of its
\* embedding and to the provider's getDimensions(); a backend vector of
\* another length makes the call fail (stated for results that carry a
\* vector; the result without one is the case of C13).
C11_DimensionsMatchDeclared ==
    SingleResolved /\ ResultVector.len > 0 =>
        /\ outcome.result.dimensions = ResultVector.len
        /\ outcome.result.dimensions = Declared

\* C12: in a successful BatchEmbedResult every inner vector has the length
\* the dimensions field states; a backend answer whose vectors differ in
\* length makes the call fail (stated for the vectors that are present).
C12_BatchDimensionsUniform ==
    BatchResolved =>
        \A i \in 1..Len(outcome.result.embeddings) :
            outcome.result.embeddings[i].type /= Undefined
                => outcome.result.embeddings[i].len = outcome.result.dimensions

\* The answers by which a backend fails or gives no usable vector.
Unusable == { "error", "throw", "nodata", "noembedding", "invalid", "empty" }

\* C13: no successful result stands for a backend failure or a missing
\* vector: the provider that succeeded got no such answer, and a
\* successful EmbedResult carries a vector that is not empty.
C13_NoEmptySubstitute ==
    outcome.status = "resolved" =>
        /\ \A q \in Positions :
              calls[q].op = "answer" /\ calls[q].provider = config.provider
                  => calls[q].detail \notin Unusable
        /\ ~top.isArray => ResultVector.len > 0 /\ outcome.result.dimensions > 0

\* C14: isReady() of every provider settles with true or false and never
\* throws or rejects, whatever fails inside the probe: what follows an
\* isReady() call in the history is its boolean answer.
C14_IsReadyNeverThrows ==
    \A q \in Positions :
        /\ calls[q].op = "isReady" /\ q < Len(calls) =>
              calls[q + 1] \in { Answer(calls[q].provider, "ready"),
                                 Answer(calls[q].provider, "notReady") }
        /\ calls[q].op = "answer" => calls[q].detail /= "threw"

\* The probes of the local provider and of a remote one failed inside and
\* both answered false.
C14_Witness ==
    /\ InAuto
    /\ \E q \in Positions : calls[q] = Answer("llamacpp", "notReady")
    /\ \E q \in Positions : calls[q] = Answer("mistral", "notReady")

Registered(p) == p \in DOMAIN providers

C16_MissingKeyFailsAtConstruction ==
    InEmbed /\ config.provider \in RemoteTypes /\ ~Truthy(config.apiKey) =>
        /\ pc = "done"
        /\ outcome = Rejected(KeyRequiredMessage(providers[config.provider]))
        /\ calls = << Event("create", config.provider),
                      Event("fail", config.provider) >>

\* embed was called for a remote provider without an API key.
C16_Witness ==
    /\ InEmbed /\ config.provider = "claude" /\ config.apiKey = Undefined
    /\ pc = "done" /\ outcome.status = "rejected"

\* Message msg names provider p: it holds the identifier (the not-ready
\* and the unsupported-provider errors) or the vendor's name (the
\* key-required errors, the errors of the Claude provider and of the
\* local provider without a native module or an endpoint).
NamesProvider(msg, p) ==
    \/ msg = NotReadyError(p)
    \/ msg = "Unsupported provider: " \o p
    \/ p \in RemoteTypes /\ msg = KeyRequiredMessage(p)
    \/ p = "claude"
        /\ msg = "Claude embeddings API not yet available. Please use another provider."
    \/ p = "llamacpp" /\ msg = NoneAvailable

\* The entries autoEmbed's catch block wrote, one for each failed candidate:
\* arg is the candidate's identifier, reason the message of its error.
FailureEntries ==
    { n \in 1..Len(log) : log[n].module = "main" /\ log[n].msg = "Provider failed" }

\* C17: the error by which autoEmbed fails carries, for each candidate that
\* was tried and failed, its identifier and its failure reason (stated for
\* the identifier, which the reason comes with).
C17_AggregateErrorListsFailures ==
    InAuto /\ outcome.status = "rejected" =>
        \A n \in FailureEntries : NamesProvider(outcome.error, log[n].arg)

\* C18: by the time autoEmbed settles, every candidate it passed over
\* (skipped for a missing key, or tried and failed) has a log entry that
\* carries its identifier and the reason.
C18_PassedOverLogged ==
    InAuto /\ pc = "done" =>
        \A q \in Positions :
            calls[q].op \in {"skip", "fail"} =>
                \E n \in 1..Len(log) :
                    /\ log[n].arg = calls[q].provider
                    /\ log[n].reason /= ""

\* C19: when embed rejects, the dispatcher has written an error entry that
\* identifies config.provider, and the caller gets the error that was
\* raised (the one the entry reports), not another.
C19_EmbedLogsProviderBeforeReject ==
    InEmbed /\ outcome.status = "rejected" =>
        \E n \in 1..Len(log) :
            /\ log[n].level = "error" /\ log[n].module = "main"
            /\ log[n].reason = outcome.error
            /\ log[n].arg = config.provider
                \/ NamesProvider(log[n].reason, config.provider)

\* C20: a successful autoEmbed returns the very result embed returns for
\* the winning candidate, which is the result that candidate's provider
\* returned: provider, model, dimensions, vectors and usage are the same,
\* nothing is added, removed or rewritten on the way.
C20_AutoEmbedTransparent ==
    outcome.status = "resolved" =>
        /\ outcome.result = returned
        /\ outcome.result.provider = config.provider
        /\ outcome.result.kind = IF top.isArray THEN "batch" ELSE "single"
        /\ InAuto => config = CleanConfig(AutoProviders(top.env)[idx])

\* autoEmbed succeeded with a remote candidate, whose result has a usage.
C20_Witness ==
    /\ InAuto /\ outcome.status = "resolved"
    /\ config.provider = "mistral"
    /\ outcome.result.usage /= Undefined
    /\ outcome.result.embeddings /= <<>>

\* What initializeNativeModule leaves in a provider, as a function of what
\* the machine holds and of the provider's own configuration.
InitFinished == llama.exists /\ llama.initPc > NumNativePaths

Initialised(env, endpoint) ==
    [useNative |-> env = "ok", nativeModel |-> IF env = "ok" THEN "model" ELSE "null",
     useHttpFallback |-> env = "missing" /\ Truthy(endpoint)]

NativeAvailable == nativeEnv = "ok"

LlamaAttempted == HasEvent("construct", "llamacpp")

\* The attempt on the local provider is over: it succeeded or failed.
LlamaSettled == HasEvent("success", "llamacpp") \/ HasEvent("fail", "llamacpp")

\* The input is one the local provider can embed: it resolves to text that
\* is not blank.
Embeddable(input) == readInput(input).ok /\ Trim(readInput(input).text) /= <<>>

\* C22: when the native module can be loaded and the model created, an
\* embed call on 'llamacpp' through the dispatcher finds the provider ready
\* and is served by the native module, in every interleaving of the
\* background initialisation with the dispatcher's isReady check.
C22_NativeUsedWhenAvailable ==
    NativeAvailable /\ LlamaAttempted /\ LlamaSettled
        /\ top.fn \in {"embed", "autoEmbed"} /\ ~top.isArray /\ Embeddable(top.input[1])
    => /\ \A q \in Positions : calls[q] /= Answer("llamacpp", "notReady")
       /\ HasEvent("native", "llamacpp")

\* C23: when the native module fails while LlamaCppProvider.embed is
\* generating an embedding (getEmbedding throws) and an HTTP endpoint is
\* configured, the provider goes on to the HTTP backend instead of failing.
C23_NativeFailureFallsBackToHttp ==
    /\ llama.exists /\ Truthy(llama.httpEndpoint) /\ ~top.isArray
    /\ \E q \in Positions : calls[q] = Answer("llamacpp", "throw")
    => ~HasEvent("fail", "llamacpp")

\* A provider the application holds (createProvider), as opposed to one
\* the dispatcher made for one call.
Held == top.fn = "provider"

\* The step is a call of isReady() on the provider held, answered on basis b.
IsReadyStep(b) ==
    /\ Len(calls') = Len(calls) + 2
    /\ calls'[Len(calls) + 1] = IsReadyCall(config.provider, b)

\* C24: once initialisation of the native handle has failed (the module
\* cannot be loaded, or createModel threw), isReady() answers false unless
\* the HTTP endpoint is configured and healthy, and an embed never calls the
\* native module and succeeds only over HTTP.
C24_FailedInitNotReady ==
    [][ Held /\ InitFinished /\ nativeEnv /= "ok" =>
            /\ ~IsReadyStep("native") /\ ~IsReadyStep("binary")
            /\ \A q \in 1..Len(calls') : calls'[q].op /= "native"
            /\ outcome'.status = "resolved" => HttpUsable ]_vars

\* The step is a call of cleanup() on the provider held.
CleanupStep ==
    /\ Len(calls') = Len(calls) + 1
    /\ calls'[Len(calls')] = Event("cleanup", config.provider)

C26_NoSharedMutableState ==
    top.fn \in { "embed", "autoEmbed" } /\ llama.exists /\ llama.initPc = 1 =>
        llama = [NewLlama(config) EXCEPT !.useNative = FALSE]

\* How many times the provider of the call had the method op called.
Called(op) == Cardinality({ q \in Positions : calls[q] = Event(op, config.provider) })

\* C27: once embed(config, input) has found its provider ready it calls
\* provider.embedBatch, once, and never provider.embed, when input is an
\* array (the empty array too), and provider.embed, once, and never
\* provider.embedBatch, when input is a single EmbedInput.
C27_RoutesByInputShape ==
    InEmbed =>
        /\ Called("embed") + Called("embedBatch") <= 1
        /\ top.isArray => Called("embed") = 0
        /\ ~top.isArray => Called("embedBatch") = 0
        /\ HasEvent("success", config.provider) \/ HasEvent("native", config.provider)
              \/ HasEvent("backend", config.provider)
              \/ \E q \in Positions : calls[q] = Answer(config.provider, "ready")
           => Called("embed") + Called("embedBatch") = 1

\* embed routed an array of one input to embedBatch, which resolved.
C27_Witness ==
    /\ InEmbed /\ top.isArray /\ Len(top.input) = 1
    /\ Called("embedBatch") = 1 /\ pc = "done"
    /\ outcome.status = "resolved"

CandidatesLeft == NumCandidates + 1 - idx

AwaitsLeft ==
    CASE pc = "ready_wait" -> 3
      [] pc = "read_wait" -> 2
      [] pc = "backend_wait" -> 1
      [] OTHER -> 0

ItemsLeft == IF pc = "read_wait" THEN Len(top.input) - batch.i ELSE 0

InitLeft == IF llama.exists THEN NumNativePaths + 1 - llama.initPc ELSE 0

Remaining ==
    InitLeft + (NumNativePaths + 2)
        * (ItemsLeft + (MaxBatch + 1) * (AwaitsLeft + 4 * CandidatesLeft))

\* C29: every autoEmbed call terminates, provided each dispatcher call it
\* awaits settles.  While the call is pending some promise it awaits can
\* settle; every step taken during the call brings it nearer its end (what
\* remains of it strictly decreases and is never negative); and it moves
\* through its candidates forward only, taking none up twice.
C29_AutoEmbedTerminates ==
    /\ [][InAuto /\ InAuto' => Remaining' < Remaining /\ Remaining' >= 0
                                /\ idx' >= idx]_vars
    /\ [](InAuto /\ pc /= "done" =>
            ENABLED (ReadyResolve \/ ReadResolve \/ BackendResolve))
    /\ [](InAuto =>
            \A q \in Positions, r \in Positions :
                /\ q < r
                /\ calls[q].op \in {"skip", "create"}
                /\ calls[r].op \in {"skip", "create"}
                => calls[q].provider /= calls[r].provider)

\* autoEmbed has gone through all its candidates, trying more than one, and
\* has ended.
C29_Witness ==
    /\ InAuto /\ pc = "done" /\ idx > NumCandidates
    /\ HasEvent("fail", "llamacpp") /\ HasEvent("fail", "mistral")

\* The LlamaCppProvider of the call can never get a backend: the machine
\* gives it no native model and its configuration no HTTP endpoint.
NoBackendPath == llama.exists /\ nativeEnv /= "ok" /\ ~Truthy(llama.httpEndpoint)

\* C30: when isReady() of the LlamaCppProvider has answered true, the embed
\* that follows has a backend path; stated for the provider that can have
\* none: it is never reported ready and then fails for want of a backend.
C30_ReadyImpliesUsablePath ==
    top.fn \in { "embed", "autoEmbed" } /\ NoBackendPath
        /\ (\E q \in Positions : calls[q] = Answer("llamacpp", "ready"))
    => \A n \in 1..Len(log) : log[n].reason /= NoneAvailable

====
